---- MODULE Spec2Model ----
(***************************************************************************)
(* Realmwright helper scripts: project_stats.py (walk_project,             *)
(* count_file_stats, get_git_info, print_report) and largest_files.py      *)
(* (get_largest_files), modelled as state machines.                        *)
(*                                                                         *)
(* A line of text is a sequence of one-character strings; the regular      *)
(* expressions of count_file_stats are evaluated on it by position sets    *)
(* (position p = index of the next character to consume, 1-based).         *)
(***************************************************************************)
EXTENDS Integers, Sequences, FiniteSets, TLC

VARIABLES
    \* ---- os.walk, shared by walk_project and get_largest_files
    pc,          \* position of the running function
    stack,       \* os.walk: directories still to be yielded
    cur,         \* os.walk: the directory yielded last ("root")
    files,       \* names of `files` of cur the for loop has not reached yet
    \* ---- walk_project / count_file_stats / print_report
    content,     \* file system: path -> sequence of lines
    path,        \* count_file_stats: filepath
    stats,       \* count_file_stats: stats
    pos,         \* count_file_stats: index of the next line of the file
    handles,     \* file handles currently open
    failAt,      \* path whose read raised -> number of lines scanned before
    returned,    \* path -> the FileStats count_file_stats returned
    visited,     \* paths in the order count_file_stats was invoked on them
    total_stats, \* walk_project: total_stats (a Counter)
    file_count,  \* walk_project: file_count
    report,      \* print_report: the two averages (or the error raised)
    \* ---- get_git_info
    gitOk,       \* key -> whether the git command of that query succeeded
    git_info,    \* key -> value stored (None when absent)
    \* ---- get_largest_files
    size,        \* file system: path -> size in bytes
    n,           \* get_largest_files: n
    file_sizes,  \* get_largest_files: file_sizes
    skipped,     \* paths whose os.path.getsize raised OSError
    result,      \* get_largest_files: the list returned
    \* ---- one line through the loop body of count_file_stats
    line,        \* the line about to be scanned
    prevStats,   \* stats before the last scanned line
    lastLine,    \* the last scanned line
    scanned      \* number of lines scanned

walkVars == <<pc, stack, cur, files>>
statVars == <<content, path, stats, pos, handles, failAt, returned,
              visited, total_stats, file_count, report>>
gitVars == <<gitOk, git_info>>
largeVars == <<size, n, file_sizes, skipped, result>>
lineVars == <<line, prevStats, lastLine, scanned>>
vars == <<walkVars, statVars, gitVars, largeVars, lineVars>>

None == "None"

-----------------------------------------------------------------------------
(* Bounds *)

\* get_largest_files is called with n in 0..MaxN
MaxN == 3
\* file sizes are drawn from 0..MaxSize
MaxSize == 2

-----------------------------------------------------------------------------
(* Characters *)

Upper == {"A","B","C","D","E","F","G","H","I","J","K","L","M",
          "N","O","P","Q","R","S","T","U","V","W","X","Y","Z"}
Lower == {"a","b","c","d","e","f","g","h","i","j","k","l","m",
          "n","o","p","q","r","s","t","u","v","w","x","y","z"}
Digit == {"0","1","2","3","4","5","6","7","8","9"}
Other == {"(", ")", "{", "}", "=", ">", ":", ";", "/", "."}
\* \w
WordCh == Upper \cup Lower \cup Digit \cup {"_"}
\* \s
SpaceCh == {" ", "\t", "\n"}
AnyCh == WordCh \cup SpaceCh \cup Other
\* .  (no DOTALL flag)
DotCh == AnyCh \ {"\n"}
\* [^={]
NotEqBrace == AnyCh \ {"=", "{"}

\* str.isupper() of one character
IsUpper(c) == c \in Upper

-----------------------------------------------------------------------------
(* Regular-expression pieces on position sets *)

\* zero or more characters of class C, from any position of P
Star(l, P, C) ==
    {q \in 1..(Len(l) + 1) :
        \E p \in P : p <= q /\ \A k \in p..(q - 1) : l[k] \in C}

\* one or more characters of class C
Plus(l, P, C) ==
    {q \in 1..(Len(l) + 1) :
        \E p \in P : p < q /\ \A k \in p..(q - 1) : l[k] \in C}

\* the literal w
Lit(l, P, w) ==
    {p + Len(w) : p \in {p \in P : /\ p + Len(w) - 1 <= Len(l)
                                   /\ \A k \in 1..Len(w) : l[p + k - 1] = w[k]}}

KwFunction == <<"f","u","n","c","t","i","o","n">>
KwExport == <<"e","x","p","o","r","t">>
KwConst == <<"c","o","n","s","t">>
KwLet == <<"l","e","t">>
KwVar == <<"v","a","r">>
KwClass == <<"c","l","a","s","s">>

\* the spans <<start, end>> a capture group \w+ can take: it starts at a
\* position of P and ends at a position of Ends, those from which the rest of
\* the pattern matches
Spans(l, P, Ends) ==
    {sp \in P \X Ends : sp[2] \in Plus(l, {sp[1]}, WordCh)}

\* the span the backtracking matcher finds first: the greedy \s+ before the
\* group gives the latest start, the greedy \w+ the longest name
FirstSpan(S) ==
    CHOOSE sp \in S : \A o \in S :
        sp[1] > o[1] \/ (sp[1] = o[1] /\ sp[2] >= o[2])

GroupText(l, sp) == SubSeq(l, sp[1], sp[2] - 1)

\* ^\s*
LeadingSpace(l) == Star(l, {1}, SpaceCh)

\* (?:export\s+)?
OptExport(l, P) == P \cup Plus(l, Lit(l, P, KwExport), SpaceCh)

\* \s*\(   after the name of `function name (`
FuncRest(l, e) == Lit(l, Star(l, {e}, SpaceCh), <<"(">>)

\* \s*(?::[^={]+)?=\s*\(.*\)\s*=>   after the name of a const/let/var
ArrowRest(l, e) ==
    LET q0 == Star(l, {e}, SpaceCh)
        q1 == q0 \cup Plus(l, Lit(l, q0, <<":">>), NotEqBrace)
        q2 == Star(l, Lit(l, q1, <<"=">>), SpaceCh)
        q3 == Star(l, Lit(l, q2, <<"(">>), DotCh)
        q4 == Star(l, Lit(l, q3, <<")">>), SpaceCh)
    IN  Lit(l, q4, <<"=", ">">>)

\* first alternative of func_pattern: ^\s*function\s+(?P<funcname>\w+)\s*\(
FuncnameSpans(l) ==
    Spans(l, Plus(l, Lit(l, LeadingSpace(l), KwFunction), SpaceCh),
          {e \in 1..(Len(l) + 1) : FuncRest(l, e) # {}})

\* second alternative of func_pattern:
\* ^\s*(?:export\s+)?(?:const|let|var)\s+(?P<varname>\w+)\s*(?::[^={]+)?=\s*\(.*\)\s*=>
VarnameSpans(l) ==
    LET p1 == OptExport(l, LeadingSpace(l))
        p2 == Lit(l, p1, KwConst) \cup Lit(l, p1, KwLet) \cup Lit(l, p1, KwVar)
    IN  Spans(l, Plus(l, p2, SpaceCh),
              {e \in 1..(Len(l) + 1) : ArrowRest(l, e) # {}})

\* class_pattern: ^\s*(?:export\s+)?class\s+(?P<classname>\w+)
ClassnameSpans(l) ==
    Spans(l, Plus(l, Lit(l, OptExport(l, LeadingSpace(l)), KwClass), SpaceCh),
          1..(Len(l) + 1))

NoMatch == [matched |-> FALSE, name |-> <<>>]

\* func_pattern.search(line) with group("funcname") or group("varname")
func_match(l) ==
    IF FuncnameSpans(l) # {}
    THEN [matched |-> TRUE, name |-> GroupText(l, FirstSpan(FuncnameSpans(l)))]
    ELSE IF VarnameSpans(l) # {}
    THEN [matched |-> TRUE, name |-> GroupText(l, FirstSpan(VarnameSpans(l)))]
    ELSE NoMatch

\* class_pattern.search(line) with group("classname")
class_match(l) ==
    IF ClassnameSpans(l) # {}
    THEN [matched |-> TRUE, name |-> GroupText(l, FirstSpan(ClassnameSpans(l)))]
    ELSE NoMatch

\* end of the maximal run of word characters that starts at i
RunEnd(l, i) ==
    CHOOSE q \in Plus(l, {i}, WordCh) : \A r \in Plus(l, {i}, WordCh) : q >= r

RECURSIVE FindAllFrom(_, _)
FindAllFrom(l, i) ==
    IF i > Len(l) THEN <<>>
    ELSE IF l[i] \in WordCh
         THEN <<SubSeq(l, i, RunEnd(l, i) - 1)>> \o FindAllFrom(l, RunEnd(l, i))
         ELSE FindAllFrom(l, i + 1)

\* token_pattern.findall(line), token_pattern = \w+
token_findall(l) == FindAllFrom(l, 1)

RECURSIVE SumLen(_)
\* sum(len(t) for t in tokens)
SumLen(ts) == IF ts = <<>> THEN 0 ELSE Len(Head(ts)) + SumLen(Tail(ts))

-----------------------------------------------------------------------------
(* count_file_stats: the stats dictionary and the body of the line loop *)

Metrics == {"lines", "tokens", "letters", "functions", "classes", "components"}

ZeroStats == [m \in Metrics |-> 0]

\* name and name[0].isupper()
StartsUpper(name) == name # <<>> /\ IsUpper(name[1])

CountTokens(st, l) ==
    [st EXCEPT !["lines"] = @ + 1,
               !["tokens"] = @ + Len(token_findall(l)),
               !["letters"] = @ + SumLen(token_findall(l))]

\* as CountFunc, with every function name counted as a component
CountFuncAnyName(st, l) ==
    IF func_match(l).matched
    THEN [st EXCEPT !["functions"] = @ + 1, !["components"] = @ + 1]
    ELSE st

CountFunc(st, l) ==
    IF func_match(l).matched
    THEN [st EXCEPT !["functions"] = @ + 1,
                    !["components"] =
                        IF StartsUpper(func_match(l).name) THEN @ + 1 ELSE @]
    ELSE st

CountClass(st, l) ==
    IF class_match(l).matched
    THEN [st EXCEPT !["classes"] = @ + 1,
                    !["components"] =
                        IF StartsUpper(class_match(l).name) THEN @ + 1 ELSE @]
    ELSE st

\* one iteration of `for line in f`
LoopBody(st, l) == CountClass(CountFunc(CountTokens(st, l), l), l)

-----------------------------------------------------------------------------
(* Lines of text the files are made of *)

NameButton == <<"B","u","t","t","o","n">>
NameHelper == <<"h","e","l","p","e","r">>
NameUnder == <<"_","x","1">>
Names == {NameButton, NameHelper, NameUnder}

\* what precedes the declaration on its line: nothing, indentation, `// `
Leads == {<<>>, <<" ", "\t">>, <<"/", "/", " ">>}

Sp == <<" ">>
Nl == <<"\n">>
OpenBrace == <<" ", "{">>
Params == <<"(", "p", "r", "o", "p", "s", ")">>
Arrow == <<" ", "=", ">">>

Forms == {"function", "function_noparen", "export_function", "export_const_arrow",
          "let_typed_arrow", "var_value", "export_class", "class",
          "function_then_class", "assignment"}

Form(k, ld, nm) ==
    CASE k = "function" ->
            ld \o KwFunction \o Sp \o nm \o <<"(", ")">> \o OpenBrace \o Nl
      [] k = "function_noparen" ->
            ld \o KwFunction \o Sp \o nm \o OpenBrace \o Nl
      [] k = "export_function" ->
            ld \o KwExport \o Sp \o KwFunction \o Sp \o nm \o <<"(", ")">> \o Nl
      [] k = "export_const_arrow" ->
            ld \o KwExport \o Sp \o KwConst \o Sp \o nm \o <<" ", "=", " ">>
               \o Params \o Arrow \o OpenBrace \o Nl
      [] k = "let_typed_arrow" ->
            ld \o KwLet \o Sp \o nm \o <<":", " ", "T", " ", "=">> \o Params \o Arrow
      [] k = "var_value" ->
            ld \o KwVar \o Sp \o nm \o <<" ", "=", " ", "5", ";">> \o Nl
      [] k = "export_class" ->
            ld \o KwExport \o Sp \o Sp \o KwClass \o Sp \o nm \o OpenBrace \o Nl
      [] k = "class" ->
            ld \o KwClass \o Sp \o nm \o Nl
      [] k = "function_then_class" ->
            ld \o KwFunction \o Sp \o nm \o <<"(", ")">> \o OpenBrace \o Sp
               \o KwClass \o Sp \o nm \o Nl
      [] k = "assignment" ->
            ld \o nm \o <<" ", "=", " ", "1">> \o Nl

SampleLines == {Form(k, ld, nm) : k \in Forms, ld \in Leads, nm \in Names} \cup {Nl}

\* export const Button = (props) => {
ButtonLine == Form("export_const_arrow", <<>>, NameButton)
\* function helper() {
HelperLine == Form("function", <<>>, NameHelper)

-----------------------------------------------------------------------------
(* Configuration of the two scripts *)

INCLUDE_EXTS == {".tsx", ".ts", ".css", ".py"}
EXCLUDE_DIRS == {".venv", "node_modules", "__pycache__", ".git", "dist", "build"}
EXCLUDE_FILES == {"pyproject.toml", "__init__.py", "index.tsx", "index.ts"}
\* default of the parameter `extensions` of get_largest_files
Extensions == {".js", ".ts", ".tsx", ".jsx", ".py"}

-----------------------------------------------------------------------------
(* The directory tree the scripts run on *)

Root == "."
Dirs == {".", "./src", "./node_modules", "./node_modules/lib"}

DirEntry ==
    [d \in Dirs |->
        CASE d = "." -> [name |-> ".", parent |-> None]
          [] d = "./src" -> [name |-> "src", parent |-> "."]
          [] d = "./node_modules" -> [name |-> "node_modules", parent |-> "."]
          [] d = "./node_modules/lib" -> [name |-> "lib", parent |-> "./node_modules"]]

Files == {"./App.tsx", "./README.md", "./src/util.py", "./src/style.css",
          "./src/index.ts", "./node_modules/big.tsx", "./node_modules/lib/deep.ts"}

FileEntry ==
    [f \in Files |->
        CASE f = "./App.tsx" -> [dir |-> ".", name |-> "App.tsx", ext |-> ".tsx"]
          [] f = "./README.md" -> [dir |-> ".", name |-> "README.md", ext |-> ".md"]
          [] f = "./src/util.py" -> [dir |-> "./src", name |-> "util.py", ext |-> ".py"]
          [] f = "./src/style.css" ->
                [dir |-> "./src", name |-> "style.css", ext |-> ".css"]
          [] f = "./src/index.ts" ->
                [dir |-> "./src", name |-> "index.ts", ext |-> ".ts"]
          [] f = "./node_modules/big.tsx" ->
                [dir |-> "./node_modules", name |-> "big.tsx", ext |-> ".tsx"]
          [] f = "./node_modules/lib/deep.ts" ->
                [dir |-> "./node_modules/lib", name |-> "deep.ts", ext |-> ".ts"]]

\* os.scandir(d): the sub-directories and the files of d
SubDirs(d) == {c \in Dirs : DirEntry[c].parent = d}
FilesIn(d) == {f \in Files : FileEntry[f].dir = d}

\* the orders in which a listing can come: every sequence of the elements of S
Orders(S) ==
    {o \in [1..Cardinality(S) -> S] : \A i, j \in DOMAIN o : i # j => o[i] # o[j]}

\* os.path.splitext(path)[1] in INCLUDE_EXTS
\*   and os.path.basename(path) not in EXCLUDE_FILES
is_code_file(f) ==
    /\ FileEntry[f].ext \in INCLUDE_EXTS
    /\ FileEntry[f].name \notin EXCLUDE_FILES

\* f.endswith(extensions)
EndsWithExtension(f) == FileEntry[f].ext \in Extensions

\* as Prune, with nothing left out
PruneNothing(ds) == ds

\* dirs[:] = [d for d in dirs if d not in EXCLUDE_DIRS]
Prune(ds) == SelectSeq(ds, LAMBDA d : DirEntry[d].name \notin EXCLUDE_DIRS)

\* os.walk resumes: the directories left in `dirs` are walked, in the order
\* of the list, before the ones that were already waiting
Descend(ds, waiting) == ds \o waiting

-----------------------------------------------------------------------------
(* The loop body of count_file_stats on one line *)

\* the stats the loop can hold when it reaches a line: those of a file with
\* no line or one line before it
StartStats == {ZeroStats} \cup {LoopBody(ZeroStats, l) : l \in SampleLines}

InitLine ==
    /\ pc = "scan" /\ stack = <<>> /\ cur = None /\ files = {}
    /\ content = <<>> /\ path = None /\ pos = 0
    /\ handles = {} /\ failAt = <<>> /\ returned = <<>>
    /\ visited = <<>> /\ total_stats = <<>> /\ file_count = 0
    /\ report = [printed |-> FALSE]
    /\ gitOk = <<>> /\ git_info = <<>>
    /\ size = <<>> /\ n = 0 /\ file_sizes = <<>> /\ skipped = {} /\ result = <<>>
    /\ stats \in StartStats
    /\ line \in SampleLines
    /\ prevStats = stats /\ lastLine = <<>> /\ scanned = 0

\* the file yields `line` and the loop body runs on it
ScanLine ==
    /\ pc = "scan"
    /\ scanned = 0
    /\ stats' = LoopBody(stats, line)
    /\ prevStats' = stats
    /\ lastLine' = line
    /\ scanned' = scanned + 1
    /\ line' = <<>>
    /\ UNCHANGED <<walkVars, gitVars, largeVars>>
    /\ UNCHANGED <<content, path, pos, handles, failAt, returned,
                   visited, total_stats, file_count, report>>

NextLine == ScanLine

SpecLine == InitLine /\ [][NextLine]_vars

-----------------------------------------------------------------------------
(* walk_project, count_file_stats and print_report *)

ClassLine == Form("export_class", <<>>, NameButton)
AssignLine == Form("assignment", <<" ", "\t">>, NameHelper)

\* what a source file can hold: nothing, one blank line, two declarations,
\* a class and an assignment
Contents == {<<>>, <<Nl>>, <<ButtonLine, HelperLine>>, <<ClassLine, AssignLine>>}

\* the files whose content varies from run to run
Varying == {"./App.tsx", "./src/util.py", "./src/style.css"}

\* Counter.__missing__: a key that is not there counts 0
Get(c, k) == IF k \in DOMAIN c THEN c[k] ELSE 0

\* as CounterUpdate, with the counts replaced as dict.update replaces them
CounterReplaced(c, fs) ==
    [k \in (DOMAIN c) \cup (DOMAIN fs) |-> IF k \in DOMAIN fs THEN fs[k] ELSE c[k]]

\* Counter.update(file_stats): counts are added, key by key
CounterUpdate(c, fs) ==
    [k \in (DOMAIN c) \cup (DOMAIN fs) |-> Get(c, k) + Get(fs, k)]

\* as WithExit, with the handle closed only when no exception left the block
ClosedAtEndOnly(h, p, raised) == IF raised THEN h ELSE h \ {p}

\* leaving the `with open(...) as f` block, normally or by an exception
WithExit(h, p, raised) == h \ {p}

\* as ExceptBranch, with the stats reset to zero
ExceptBranchResets(st) == [m \in DOMAIN st |-> 0]

\* the except branch of count_file_stats: the message is printed and the
\* function goes on to `return stats`
ExceptBranch(st) == st

\* as CountFile, with only the files that were read counted
CountFileIfRead(fc, p) == IF p \in DOMAIN failAt THEN fc ELSE fc + 1

\* file_count += 1
CountFile(fc, p) == fc + 1

InitStats ==
    /\ pc = "walk" /\ stack = <<Root>> /\ cur = None /\ files = {}
    /\ \E c \in [Varying -> Contents] :
          content = [f \in Files |->
                        IF f \in Varying THEN c[f] ELSE <<ButtonLine, HelperLine>>]
    /\ path = None /\ stats = ZeroStats /\ pos = 0
    /\ handles = {} /\ failAt = <<>> /\ returned = <<>>
    /\ visited = <<>> /\ total_stats = <<>> /\ file_count = 0
    /\ report = [printed |-> FALSE]
    /\ gitOk = <<>> /\ git_info = <<>>
    /\ size = <<>> /\ n = 0 /\ file_sizes = <<>> /\ skipped = {} /\ result = <<>>
    /\ line = <<>> /\ prevStats = ZeroStats /\ lastLine = <<>> /\ scanned = 0

\* for root, dirs, files in os.walk("."): the next directory is yielded, with
\* its listing in some order, and the first statement of the body prunes dirs
EnterDir ==
    /\ pc = "walk" /\ files = {} /\ stack # <<>>
    /\ cur' = Head(stack)
    /\ files' = FilesIn(Head(stack))
    /\ \E dirs \in Orders(SubDirs(Head(stack))) :
          stack' = Descend(Prune(dirs), Tail(stack))
    /\ pc' = pc
    /\ UNCHANGED <<statVars, gitVars, largeVars, lineVars>>

\* for file in files: a file that is no code file is passed over
SkipFile ==
    /\ pc = "walk"
    /\ \E f \in files :
          /\ ~is_code_file(f)
          /\ files' = files \ {f}
    /\ UNCHANGED <<pc, stack, cur>>
    /\ UNCHANGED <<statVars, gitVars, largeVars, lineVars>>

\* for file in files: count_file_stats(path) is entered for a code file
CallCountFileStats ==
    /\ pc = "walk"
    /\ \E f \in files :
          /\ is_code_file(f)
          /\ files' = files \ {f}
          /\ path' = f
          /\ visited' = Append(visited, f)
    /\ stats' = ZeroStats
    /\ pos' = 0
    /\ pc' = "open"
    /\ UNCHANGED <<stack, cur, content, handles, failAt, returned,
                   total_stats, file_count, report>>
    /\ UNCHANGED <<gitVars, largeVars, lineVars>>

\* open(filepath, ...) succeeds
OpenFile ==
    /\ pc = "open"
    /\ handles' = handles \cup {path}
    /\ pos' = 1
    /\ pc' = "scan"
    /\ UNCHANGED <<stack, cur, files, content, path, stats, failAt, returned,
                   visited, total_stats, file_count, report>>
    /\ UNCHANGED <<gitVars, largeVars, lineVars>>

\* open(filepath, ...) raises: the except branch runs
OpenFails ==
    /\ pc = "open"
    /\ failAt' = failAt @@ (path :> 0)
    /\ stats' = ExceptBranch(stats)
    /\ pc' = "return"
    /\ UNCHANGED <<stack, cur, files, content, path, pos, handles, returned,
                   visited, total_stats, file_count, report>>
    /\ UNCHANGED <<gitVars, largeVars, lineVars>>

\* for line in f: the next line is read and the loop body runs on it
ReadLine ==
    /\ pc = "scan"
    /\ pos <= Len(content[path])
    /\ stats' = LoopBody(stats, content[path][pos])
    /\ pos' = pos + 1
    /\ UNCHANGED <<pc, stack, cur, files, content, path, handles, failAt,
                   returned, visited, total_stats, file_count, report>>
    /\ UNCHANGED <<gitVars, largeVars, lineVars>>

\* for line in f: the file is at its end; the with block is left
EndOfFile ==
    /\ pc = "scan"
    /\ pos > Len(content[path])
    /\ handles' = WithExit(handles, path, FALSE)
    /\ pc' = "return"
    /\ UNCHANGED <<stack, cur, files, content, path, stats, pos, failAt,
                   returned, visited, total_stats, file_count, report>>
    /\ UNCHANGED <<gitVars, largeVars, lineVars>>

\* for line in f: the read raises; the with block is left by the exception
\* and the except branch runs
ReadFails ==
    /\ pc = "scan"
    /\ handles' = WithExit(handles, path, TRUE)
    /\ failAt' = failAt @@ (path :> pos - 1)
    /\ stats' = ExceptBranch(stats)
    /\ pc' = "return"
    /\ UNCHANGED <<stack, cur, files, content, path, pos, returned,
                   visited, total_stats, file_count, report>>
    /\ UNCHANGED <<gitVars, largeVars, lineVars>>

\* return stats; total_stats.update(file_stats); file_count += 1
ReturnStats ==
    /\ pc = "return"
    /\ returned' = returned @@ (path :> stats)
    /\ total_stats' = CounterUpdate(total_stats, stats)
    /\ file_count' = CountFile(file_count, path)
    /\ path' = None
    /\ pc' = "walk"
    /\ UNCHANGED <<stack, cur, files, content, stats, pos, handles, failAt,
                   visited, report>>
    /\ UNCHANGED <<gitVars, largeVars, lineVars>>

\* os.walk is exhausted: total_stats["files"] = file_count; return total_stats
ReturnTotals ==
    /\ pc = "walk" /\ files = {} /\ stack = <<>>
    /\ total_stats' = [k \in (DOMAIN total_stats) \cup {"files"} |->
                          IF k = "files" THEN file_count ELSE total_stats[k]]
    /\ pc' = "report"
    /\ UNCHANGED <<stack, cur, files, content, path, stats, pos, handles,
                   failAt, returned, visited, file_count, report>>
    /\ UNCHANGED <<gitVars, largeVars, lineVars>>

\* a / b: raises ZeroDivisionError when b is 0; the quotient is kept in
\* hundredths, rounded, as the format .2f prints it
TrueDiv(a, b) ==
    IF b = 0 THEN [raised |-> TRUE, value |-> 0]
    ELSE [raised |-> FALSE, value |-> (200 * a + b) \div (2 * b)]

\* as Average, without the guard
AverageUnguarded(a, b) == TrueDiv(a, b)

\* a / b if b else 0
Average(a, b) == IF b # 0 THEN TrueDiv(a, b) ELSE [raised |-> FALSE, value |-> 0]

\* print_report(stats, git_info): the two averages of EXTRA INSIGHTS
PrintReport ==
    /\ pc = "report"
    /\ report' =
          [printed |-> TRUE,
           avg_tokens_per_line |->
               Average(Get(total_stats, "tokens"), Get(total_stats, "lines")),
           avg_letters_per_token |->
               Average(Get(total_stats, "letters"), Get(total_stats, "tokens"))]
    /\ pc' = "done"
    /\ UNCHANGED <<stack, cur, files, content, path, stats, pos, handles,
                   failAt, returned, visited, total_stats, file_count>>
    /\ UNCHANGED <<gitVars, largeVars, lineVars>>

Next ==
    \/ EnterDir
    \/ SkipFile
    \/ CallCountFileStats
    \/ OpenFile
    \/ OpenFails
    \/ ReadLine
    \/ EndOfFile
    \/ ReadFails
    \/ ReturnStats
    \/ ReturnTotals
    \/ PrintReport

Spec == InitStats /\ [][Next]_vars

-----------------------------------------------------------------------------
(* get_largest_files *)

RECURSIVE Reverse(_)
Reverse(l) == IF l = <<>> THEN <<>> ELSE Append(Reverse(Tail(l)), Head(l))

\* x is put behind every entry of the sorted list l whose size is not larger
InsertBySize(x, l) ==
    LET k == Cardinality({i \in DOMAIN l : l[i][2] <= x[2]})
    IN  SubSeq(l, 1, k) \o <<x>> \o SubSeq(l, k + 1, Len(l))

RECURSIVE StableSortAscending(_)
\* a stable sort by size, ascending
StableSortAscending(l) ==
    IF l = <<>> THEN <<>>
    ELSE InsertBySize(l[Len(l)], StableSortAscending(SubSeq(l, 1, Len(l) - 1)))

\* as SortBySize, sorted ascending and then reversed
SortThenReverse(l) == Reverse(StableSortAscending(l))

\* file_sizes.sort(key=lambda x: x[1], reverse=True): list.sort reverses the
\* list, sorts it stably and reverses it again
SortBySize(l) == Reverse(StableSortAscending(Reverse(l)))

\* file_sizes[:n], n >= 0
FirstN(l, k) == SubSeq(l, 1, IF k < Len(l) THEN k ELSE Len(l))

\* as AfterOSError, with the for loop left (break)
BreakAfterOSError(fs, f) == {}

\* except OSError: continue -- the for loop goes on with the files left
AfterOSError(fs, f) == fs \ {f}

\* the files whose size varies from run to run
Sized == {f \in Files : EndsWithExtension(f)}

InitLargest ==
    /\ pc = "collect" /\ stack = <<Root>> /\ cur = None /\ files = {}
    /\ content = <<>> /\ path = None /\ stats = ZeroStats /\ pos = 0
    /\ handles = {} /\ failAt = <<>> /\ returned = <<>>
    /\ visited = <<>> /\ total_stats = <<>> /\ file_count = 0
    /\ report = [printed |-> FALSE]
    /\ gitOk = <<>> /\ git_info = <<>>
    /\ \E sz \in [Sized -> 0..MaxSize] :
          size = [f \in Files |-> IF f \in Sized THEN sz[f] ELSE MaxSize]
    /\ n \in 0..MaxN
    /\ file_sizes = <<>> /\ skipped = {} /\ result = <<>>
    /\ line = <<>> /\ prevStats = ZeroStats /\ lastLine = <<>> /\ scanned = 0

\* for folder, _, files in os.walk(root_dir): the next directory is yielded;
\* no directory is left out
LargestEnterDir ==
    /\ pc = "collect" /\ files = {} /\ stack # <<>>
    /\ cur' = Head(stack)
    /\ files' = FilesIn(Head(stack))
    /\ \E dirs \in Orders(SubDirs(Head(stack))) :
          stack' = Descend(dirs, Tail(stack))
    /\ pc' = pc
    /\ UNCHANGED <<statVars, gitVars, largeVars, lineVars>>

\* for f in files: f does not end with one of the extensions
LargestSkipFile ==
    /\ pc = "collect"
    /\ \E f \in files :
          /\ ~EndsWithExtension(f)
          /\ files' = files \ {f}
    /\ UNCHANGED <<pc, stack, cur>>
    /\ UNCHANGED <<statVars, gitVars, largeVars, lineVars>>

\* size = os.path.getsize(file_path); file_sizes.append((file_path, size))
GetSize ==
    /\ pc = "collect"
    /\ \E f \in files :
          /\ EndsWithExtension(f)
          /\ files' = files \ {f}
          /\ file_sizes' = Append(file_sizes, <<f, size[f]>>)
          /\ visited' = Append(visited, f)
    /\ UNCHANGED <<pc, stack, cur, size, n, skipped, result>>
    /\ UNCHANGED <<content, path, stats, pos, handles, failAt, returned,
                   total_stats, file_count, report>>
    /\ UNCHANGED <<gitVars, lineVars>>

\* os.path.getsize(file_path) raises OSError: continue
GetSizeFails ==
    /\ pc = "collect"
    /\ \E f \in files :
          /\ EndsWithExtension(f)
          /\ files' = AfterOSError(files, f)
          /\ skipped' = skipped \cup {f}
    /\ UNCHANGED <<pc, stack, cur, size, n, file_sizes, result>>
    /\ UNCHANGED <<statVars, gitVars, lineVars>>

\* os.walk is exhausted: file_sizes.sort(...); return file_sizes[:n]
SortAndReturn ==
    /\ pc = "collect" /\ files = {} /\ stack = <<>>
    /\ file_sizes' = SortBySize(file_sizes)
    /\ result' = FirstN(file_sizes', n)
    /\ pc' = "returned"
    /\ UNCHANGED <<stack, cur, files, size, n, skipped>>
    /\ UNCHANGED <<statVars, gitVars, lineVars>>

NextLargest ==
    \/ LargestEnterDir
    \/ LargestSkipFile
    \/ GetSize
    \/ GetSizeFails
    \/ SortAndReturn

SpecLargest == InitLargest /\ [][NextLargest]_vars

-----------------------------------------------------------------------------
(* get_git_info: the six shell commands and run_git *)

\* the keys of git_info, in the order their commands run
GitKeys == <<"repo_name", "total_commits", "latest_commit_date",
             "latest_commit_author", "current_branch", "top_contributor">>

\* what each git command writes to its standard output when it succeeds
GitStdout ==
    [k \in {GitKeys[i] : i \in DOMAIN GitKeys} |->
        CASE k = "repo_name" -> <<"/", "w", "/", "r", "w", "\n">>
          [] k = "total_commits" -> <<"7", "\n">>
          [] k = "latest_commit_date" -> <<"1", " ", "N", "o", "v", "\n">>
          [] k = "latest_commit_author" -> <<"R", "o", " ", "B", "i", "n", "\n">>
          [] k = "current_branch" -> <<"m", "a", "i", "n", "\n">>
          [] k = "top_contributor" ->
                <<" ", " ", "7", "\t", "R", "o", " ", "B", "i", "n", "\n",
                  " ", " ", "2", "\t", "A", "l", " ", "X", "\n">>]

\* a git command: exit status 0 and its output, or a non-zero exit status and
\* nothing on standard output (the message goes to standard error)
GitRun(k, ok) ==
    IF ok THEN [status |-> 0, out |-> GitStdout[k]]
    ELSE [status |-> 128, out |-> <<>>]

RECURSIVE FieldsFrom(_, _)
\* the maximal runs of characters that are not white space, from position i
FieldsFrom(t, i) ==
    IF i > Len(t) THEN <<>>
    ELSE IF t[i] \in SpaceCh THEN FieldsFrom(t, i + 1)
    ELSE LET e == CHOOSE q \in (i + 1)..(Len(t) + 1) :
                      /\ \A k \in i..(q - 1) : t[k] \notin SpaceCh
                      /\ q = Len(t) + 1 \/ t[q] \in SpaceCh
         IN  <<SubSeq(t, i, e - 1)>> \o FieldsFrom(t, e)

Fields(t) == FieldsFrom(t, 1)

\* str.strip()
Strip(t) ==
    IF \A i \in DOMAIN t : t[i] \in SpaceCh THEN <<>>
    ELSE LET a == CHOOSE i \in DOMAIN t :
                      t[i] \notin SpaceCh /\ \A j \in 1..(i - 1) : t[j] \in SpaceCh
             b == CHOOSE i \in DOMAIN t :
                      t[i] \notin SpaceCh /\ \A j \in (i + 1)..Len(t) : t[j] \in SpaceCh
         IN  SubSeq(t, a, b)

\* basename NAME: what follows the last slash
BasenameOf(w) ==
    LET slashes == {i \in DOMAIN w : w[i] = "/"}
        last == IF slashes = {} THEN 0
                ELSE CHOOSE i \in slashes : \A j \in slashes : j <= i
    IN  SubSeq(w, last + 1, Len(w))

\* basename `git rev-parse --show-toplevel`: the output of git is split into
\* the operands of basename, which fails when it gets none
BasenameOfGit(g) ==
    IF Fields(g.out) = <<>> THEN [status |-> 1, out |-> <<>>]
    ELSE [status |-> 0, out |-> BasenameOf(Fields(g.out)[1]) \o Nl]

\* head -n 1: the first line
FirstLine(t) ==
    IF \E i \in DOMAIN t : t[i] = "\n"
    THEN SubSeq(t, 1, CHOOSE i \in DOMAIN t :
                          t[i] = "\n" /\ \A j \in 1..(i - 1) : t[j] # "\n")
    ELSE t

\* awk '{print $2, $3}' on at most one line: nothing is printed for no line
AwkPrint23(t) ==
    IF t = <<>> THEN <<>>
    ELSE LET f == Fields(t)
             f2 == IF Len(f) >= 2 THEN f[2] ELSE <<>>
             f3 == IF Len(f) >= 3 THEN f[3] ELSE <<>>
         IN  f2 \o Sp \o f3 \o Nl

\* git shortlog -sn --all | head -n 1 | awk '{print $2, $3}': the exit status
\* of a pipeline is the exit status of its last command
ShortlogPipeline(g) == [status |-> 0, out |-> AwkPrint23(FirstLine(g.out))]

\* the command line of each key, run by the shell
ShellCommand(k, ok) ==
    CASE k = "repo_name" -> BasenameOfGit(GitRun(k, ok))
      [] k = "top_contributor" -> ShortlogPipeline(GitRun(k, ok))
      [] OTHER -> GitRun(k, ok)

NoneValue == [none |-> TRUE, text |-> <<>>]

\* run_git(cmd): check_output raises CalledProcessError on a non-zero exit
\* status, and None is returned; else the stripped output
run_git(r) ==
    IF r.status # 0 THEN NoneValue ELSE [none |-> FALSE, text |-> Strip(r.out)]

InitGit ==
    /\ pc = "git" /\ stack = <<>> /\ cur = None /\ files = {}
    /\ content = <<>> /\ path = None /\ stats = ZeroStats /\ pos = 0
    /\ handles = {} /\ failAt = <<>> /\ returned = <<>>
    /\ visited = <<>> /\ total_stats = <<>> /\ file_count = 0
    /\ report = [printed |-> FALSE]
    /\ gitOk = <<>> /\ git_info = <<>>
    /\ size = <<>> /\ n = 0 /\ file_sizes = <<>> /\ skipped = {} /\ result = <<>>
    /\ line = <<>> /\ prevStats = ZeroStats /\ lastLine = <<>> /\ scanned = 0

\* the next entry of the dictionary git_info is computed: its command runs,
\* git succeeds or fails in it
RunQuery ==
    /\ pc = "git"
    /\ LET k == GitKeys[Cardinality(DOMAIN git_info) + 1]
       IN  \E ok \in BOOLEAN :
             /\ gitOk' = gitOk @@ (k :> ok)
             /\ git_info' = git_info @@ (k :> run_git(ShellCommand(k, ok)))
    /\ pc' = IF Cardinality(DOMAIN git_info') = Len(GitKeys) THEN "returned" ELSE "git"
    /\ UNCHANGED <<stack, cur, files>>
    /\ UNCHANGED <<statVars, largeVars, lineVars>>

NextGit == RunQuery

SpecGit == InitGit /\ [][NextGit]_vars

-----------------------------------------------------------------------------
(* Properties of walk_project, count_file_stats and print_report (Spec) *)

RECURSIVE AncestorDirs(_)
\* d and the directories above it
AncestorDirs(d) == IF d = None THEN {} ELSE {d} \cup AncestorDirs(DirEntry[d].parent)

\* f lies, at some depth, below a directory with an excluded name
UnderExcluded(f) ==
    \E d \in AncestorDirs(FileEntry[f].dir) : DirEntry[d].name \in EXCLUDE_DIRS

\* the code files that lie below no excluded directory
Analyzable == {f \in Files : is_code_file(f) /\ ~UnderExcluded(f)}

Failed == DOMAIN failAt

RECURSIVE ScanPrefix(_, _)
\* the stats of the first k lines of c
ScanPrefix(c, k) == IF k = 0 THEN ZeroStats ELSE LoopBody(ScanPrefix(c, k - 1), c[k])

PrefixStats == [c \in Contents |-> [k \in 0..Len(c) |-> ScanPrefix(c, k)]]

\* the number of lines of f that were scanned: all of them, or the ones
\* before the read that raised
LinesScanned(f) == IF f \in Failed THEN failAt[f] ELSE Len(content[f])

RECURSIVE SumOver(_, _)
\* the sum of metric m over the FileStats returned for the files of S
SumOver(S, m) ==
    IF S = {} THEN 0
    ELSE LET f == CHOOSE x \in S : TRUE IN returned[f][m] + SumOver(S \ {f}, m)

Range(q) == {q[i] : i \in DOMAIN q}

WalkOver == pc \in {"report", "done"}

\* C1: every total is the sum of that metric over the FileStats returned for
\* the analyzed files, at every moment of the walk; and when the walk is over
\* the FileStats are those of the lines scanned in each analyzable file, so
\* that the totals do not depend on the order of the walk
C1_TotalsAreSums ==
    /\ \A m \in Metrics : Get(total_stats, m) = SumOver(DOMAIN returned, m)
    /\ WalkOver =>
          /\ DOMAIN returned = Analyzable
          /\ \A f \in Analyzable :
                returned[f] = PrefixStats[content[f]][LinesScanned(f)]

\* C1 witness: the walk is over, src was walked style.css first, and two
\* files returned different stats with lines in them
C1_Witness ==
    /\ pc = "done"
    /\ visited = <<"./App.tsx", "./src/style.css", "./src/util.py">>
    /\ returned["./App.tsx"]["lines"] > 0
    /\ returned["./src/util.py"]["lines"] > 0
    /\ returned["./App.tsx"] # returned["./src/util.py"]

\* C2: the files entry is the number of code files count_file_stats was
\* invoked on, each counted once, whether its read failed or not
C2_FilesCountsInvocations ==
    /\ file_count = Cardinality(DOMAIN returned)
    /\ Len(visited) = file_count + (IF pc \in {"open", "scan", "return"} THEN 1 ELSE 0)
    /\ Cardinality(Range(visited)) = Len(visited)
    /\ WalkOver =>
          /\ "files" \in DOMAIN total_stats
          /\ total_stats["files"] = Len(visited)
          /\ Range(visited) = {f \in Files : is_code_file(f) /\ ~UnderExcluded(f)}

\* C2 witness: the walk is over, one read failed and one succeeded
C2_Witness ==
    /\ pc = "done"
    /\ Failed # {}
    /\ Range(visited) \ Failed # {}
    /\ total_stats["files"] = 3

\* C3: a file below an excluded directory is never listed, opened, analyzed
\* or counted, and no excluded directory is ever entered
C3_ExcludedNeverVisited ==
    /\ \A f \in Files :
          UnderExcluded(f) =>
              /\ f \notin files
              /\ f \notin Range(visited)
              /\ f \notin DOMAIN returned
              /\ f \notin handles
              /\ f # path
    /\ cur # None => DirEntry[cur].name \notin EXCLUDE_DIRS
    /\ \A i \in DOMAIN stack : DirEntry[stack[i]].name \notin EXCLUDE_DIRS
    /\ WalkOver =>
          /\ total_stats["files"] = Cardinality(Analyzable)
          /\ \A m \in Metrics : Get(total_stats, m) = SumOver(Analyzable, m)

\* C3 witness: the walk is over; node_modules holds code files with lines
\* in them, at two depths
C3_Witness ==
    /\ pc = "done"
    /\ \E f, g \in Files :
          /\ is_code_file(f) /\ is_code_file(g)
          /\ FileEntry[f].dir = "./node_modules"
          /\ FileEntry[g].dir = "./node_modules/lib"
          /\ content[f] # <<>> /\ content[g] # <<>>
    /\ total_stats["files"] = 3

\* C5 as claimed: a file whose read failed contributes a FileStats in which
\* every metric is zero
C5_FailedFileContributesZero ==
    \A f \in Failed \cap DOMAIN returned : returned[f] = ZeroStats

\* C5 amended: a read failure is caught; the file contributes the stats of
\* the lines scanned before the failure (all zero when open failed or no line
\* was scanned), and the walk goes on to every other analyzable file
C5_FailedFileContributesScannedLines ==
    /\ \A f \in Failed :
          /\ f \in DOMAIN returned \/ (f = path /\ pc = "return")
          /\ f \in DOMAIN returned =>
                returned[f] = PrefixStats[content[f]][failAt[f]]
          /\ (f \in DOMAIN returned /\ failAt[f] = 0) => returned[f] = ZeroStats
    /\ WalkOver => DOMAIN returned = Analyzable

\* C5 witness: the walk is over; the first file failed after a line was
\* scanned, which left counts in its stats, and the files after it were read
C5_Witness ==
    /\ pc = "done"
    /\ Len(visited) = 3
    /\ visited[1] \in Failed
    /\ failAt[visited[1]] >= 1
    /\ returned[visited[1]] # ZeroStats
    /\ visited[2] \notin Failed /\ returned[visited[2]]["lines"] > 0

\* C9: print_report raises no division error; the average tokens per line is
\* 0 when no line was counted and the average letters per token is 0 when no
\* token was counted
C9_AveragesGuarded ==
    report.printed =>
        /\ ~report.avg_tokens_per_line.raised
        /\ ~report.avg_letters_per_token.raised
        /\ Get(total_stats, "lines") = 0 => report.avg_tokens_per_line.value = 0
        /\ Get(total_stats, "tokens") = 0 => report.avg_letters_per_token.value = 0

\* C9 witness: the report was printed for files that hold blank lines only:
\* lines were counted and no token was
C9_Witness ==
    /\ report.printed
    /\ Get(total_stats, "lines") > 0
    /\ Get(total_stats, "tokens") = 0

\* C10: at most one file handle is open, only while count_file_stats scans
\* that file; none is open once the scan ended or failed, when the next file
\* is taken or when the walk is over
C10_HandleReleased ==
    /\ Cardinality(handles) <= 1
    /\ handles # {} => (pc = "scan" /\ handles = {path})
    /\ pc \in {"walk", "open", "return", "report", "done"} => handles = {}

\* C10 witness: count_file_stats is about to return after a read that failed
\* in the middle of the scan, and no handle is open
C10_Witness ==
    /\ pc = "return"
    /\ path \in Failed
    /\ failAt[path] >= 1
    /\ handles = {}

-----------------------------------------------------------------------------
(* Properties of the loop body of count_file_stats (SpecLine) *)

\* a function-like or class-like match whose name starts with an upper-case
\* letter
IsComponentLine(l) ==
    \/ func_match(l).matched /\ StartsUpper(func_match(l).name)
    \/ class_match(l).matched /\ StartsUpper(class_match(l).name)

ComponentLines == {l \in SampleLines : IsComponentLine(l)}

Delta(m) == stats[m] - prevStats[m]

\* C7: a scanned line adds one to components if it is a function-like or
\* class-like match whose name starts with an upper-case letter, and nothing
\* otherwise; `export const Button = (props) => {` adds one to functions and
\* to components, `function helper() {` adds one to functions only
C7_ComponentsPerLine ==
    scanned = 1 =>
        /\ Delta("components") = (IF lastLine \in ComponentLines THEN 1 ELSE 0)
        /\ lastLine = ButtonLine =>
              Delta("functions") = 1 /\ Delta("components") = 1
        /\ lastLine = HelperLine =>
              Delta("functions") = 1 /\ Delta("components") = 0

\* C7 witness: `export const Button = (props) => {` was scanned
C7_Witness == scanned = 1 /\ lastLine = ButtonLine /\ Delta("components") = 1

-----------------------------------------------------------------------------
(* Properties of get_largest_files (SpecLargest) *)

\* the place of path f in the order of the walk
Encounter(f) == CHOOSE i \in DOMAIN visited : visited[i] = f

\* entry a is ranked before entry b: it is larger, or as large and met first
RankedBefore(a, b) ==
    \/ a[2] > b[2]
    \/ a[2] = b[2] /\ Encounter(a[1]) < Encounter(b[1])

Collected == {<<visited[i], size[visited[i]]>> : i \in DOMAIN visited}

\* C4: the result holds min(n, number collected) entries of the collected
\* list, by size descending, equal sizes in the order the walk met them, and
\* every entry left out ranks behind every entry returned
C4_TopNStable ==
    pc = "returned" =>
        /\ Len(result) = (IF n < Len(visited) THEN n ELSE Len(visited))
        /\ Range(result) \subseteq Collected
        /\ \A i, j \in DOMAIN result : i < j => RankedBefore(result[i], result[j])
        /\ \A e \in Collected \ Range(result) :
              \A i \in DOMAIN result : RankedBefore(result[i], e)

\* C4 witness: sizes 1, 2, 2, 0 were collected in that order and n is 2: the
\* two entries of size 2 are returned, the one met first in front
C4_Witness ==
    /\ pc = "returned"
    /\ n = 2
    /\ Len(visited) = 4
    /\ [i \in 1..4 |-> size[visited[i]]] = <<1, 2, 2, 0>>
    /\ result = <<<<visited[2], 2>>, <<visited[3], 2>>>>

\* C8: a file whose size query failed is in no list; every other file with
\* a matching extension is collected once with its size, and the function
\* returns
C8_FailedSizeSkipped ==
    /\ Range(visited) \cap skipped = {}
    /\ pc = "collect" => Len(file_sizes) = Len(visited)
    /\ pc = "returned" =>
          /\ Range(file_sizes) = {<<f, size[f]>> : f \in Sized \ skipped}
          /\ Len(file_sizes) = Cardinality(Sized \ skipped)
          /\ \A i \in DOMAIN result : result[i][1] \notin skipped

\* C8 witness: the function returned; the size query failed for the first
\* matching file of src, and the other one and the files of other directories
\* were collected
C8_Witness ==
    /\ pc = "returned"
    /\ skipped = {"./src/util.py"}
    /\ Len(file_sizes) = 4
    /\ Len(result) >= 1

-----------------------------------------------------------------------------
(* Properties of get_git_info (SpecGit) *)

\* the value a key holds when the git command of its query succeeds
OwnValue ==
    [k \in DOMAIN GitStdout |->
        CASE k = "repo_name" -> <<"r", "w">>
          [] k = "total_commits" -> <<"7">>
          [] k = "latest_commit_date" -> <<"1", " ", "N", "o", "v">>
          [] k = "latest_commit_author" -> <<"R", "o", " ", "B", "i", "n">>
          [] k = "current_branch" -> <<"m", "a", "i", "n">>
          [] k = "top_contributor" -> <<"R", "o", " ", "B", "i", "n">>]

\* C6: a key is None exactly when the git command of its own query failed,
\* and holds the value of its own query otherwise, whatever the other
\* queries did
C6_FailedQueryAloneIsNone ==
    \A k \in DOMAIN git_info :
        /\ ~gitOk[k] => git_info[k] = NoneValue
        /\ gitOk[k] => git_info[k] = [none |-> FALSE, text |-> OwnValue[k]]

=============================================================================
